---- MODULE Spec2Model ----
(***************************************************************************)
(* Model of the nexus detection engine of nexus_cli: NexusAnalyzer.analyze *)
(* with _filter_transactions, _group_by_state and _analyze_state, and the  *)
(* ConfigLoader lookups it calls (get_rule_for_state, get_current_rules,   *)
(* get_tax_rate).                                                          *)
(*                                                                         *)
(* Encoding of Python values:                                              *)
(*   str            a sequence of code points ("CA" is <<67, 65>>); string *)
(*                  comparison is the lexicographic order of the sequences *)
(*   date           <<year, month, day>>, compared lexicographically       *)
(*   Optional[T]    <<>> for None, <<v>> for a value v                     *)
(*   float amounts  integers (whole currency units)                        *)
(*   tax rates      integer percentages                                    *)
(*   estimated_liability, total_liability                                  *)
(*                  in hundredths: post_nexus_revenue * tax_rate stands    *)
(*                  for post_nexus_revenue * (tax_rate / 100)              *)
(*   threshold_percentage                                                  *)
(*                  an exact fraction [num, den], den > 0                  *)
(*   f-string warnings                                                     *)
(*                  <<kind, argument>> with the kind naming the fixed text *)
(***************************************************************************)
EXTENDS Integers, Sequences, FiniteSets, TLC

VARIABLES
    pc,                 \* "ready": before the call of analyze; "done": returned
    transactions,       \* analyze argument: List[Transaction]
    year,               \* analyze argument (already defaulted)
    ignore_marketplace, \* analyze argument
    include_negatives,  \* analyze argument
    today,              \* date.today() as seen by the ConfigLoader
    result              \* the AnalysisResult returned, <<>> before the return

vars == <<pc, transactions, year, ignore_marketplace, include_negatives, today, result>>

\* Largest number of transactions passed to analyze.
MaxTxns == 3

(***************************************************************************)
(* Python values                                                           *)
(***************************************************************************)
None == <<>>

Some(v) == <<v>>

\* Python truthiness of an Optional[int]: None and 0 are falsy.
Truthy(opt) == opt # None /\ opt[1] # 0

\* a < b for two sequences of integers (str < str, date < date).
RECURSIVE LexLess(_, _)
LexLess(a, b) ==
    IF b = <<>> THEN FALSE
    ELSE IF a = <<>> THEN TRUE
    ELSE IF a[1] # b[1] THEN a[1] < b[1]
    ELSE LexLess(Tail(a), Tail(b))

\* str.isalpha() on ASCII text: non-empty and every character a letter.
IsAlpha(s) ==
    /\ Len(s) > 0
    /\ \A i \in 1..Len(s) : s[i] \in 65..90 \/ s[i] \in 97..122

\* str.upper() on ASCII text.
Upper(s) == [i \in 1..Len(s) |-> IF s[i] \in 97..122 THEN s[i] - 32 ELSE s[i]]

\* sum(t.amount for t in txns)
RECURSIVE SumAmounts(_)
SumAmounts(txns) ==
    IF txns = <<>> THEN 0 ELSE txns[1].amount + SumAmounts(Tail(txns))

(***************************************************************************)
(* Text used by the inputs                                                 *)
(***************************************************************************)
CA == <<67, 65>>
ca == <<99, 97>>
NY == <<78, 89>>
OR == <<79, 82>>
ZZ == <<90, 90>>
TX == <<84, 88>>
C1 == <<67, 49>>
CAL == <<67, 65, 76>>
IdA == <<97>>
Id9 == <<57>>
Id10 == <<49, 48>>
Marketplace == "marketplace"
Taxable == "taxable"

(***************************************************************************)
(* ConfigLoader (config_loader.py)                                         *)
(***************************************************************************)
\* StateRule: the fields the engine reads.
StateRule(code, amt, txn_threshold, end) ==
    [state_code |-> code, amount |-> amt, transactions |-> txn_threshold, end_date |-> end]

\* load_state_rules().states.values(): the rules in the order of the mapping,
\* each keyed by its own state_code (validate_state_codes).
ConfigStates ==
    << StateRule(CA, 5, Some(2), None),
       StateRule(NY, 3, None, Some(<<2025, 6, 30>>)),
       StateRule(OR, 0, None, None),
       StateRule(TX, 4, Some(3), None) >>

\* load_tax_rates().rates: state code -> combined_rate. OR and TX have no
\* entry.
ConfigRates == << [state_code |-> CA, combined_rate |-> 10],
                  [state_code |-> NY, combined_rate |-> 8] >>

\* Values of date.today() the runs are checked for: before, on and after the
\* end_date of the expiring rule.
Todays == { <<2025, 6, 29>>, <<2025, 6, 30>>, <<2025, 7, 1>> }

\* Mutant of IsCurrent: a rule is still current on its end_date.
IsCurrent_Inclusive(rule, day) == rule.end_date = None \/ ~ LexLess(rule.end_date[1], day)

\* rule.end_date is None or rule.end_date > today
IsCurrent(rule, day) == rule.end_date = None \/ LexLess(day, rule.end_date[1])

\* Mutant of GetCurrentRules: expired rules are returned too.
GetCurrentRules_WithExpired(day) == ConfigStates

\* get_current_rules()
GetCurrentRules(day) == SelectSeq(ConfigStates, LAMBDA r : IsCurrent(r, day))

\* Mutant of GetRuleForState: a rule is still returned on its end_date.
GetRuleForState_OnEndDate(state_code, day) ==
    LET code == Upper(state_code)
        hits == SelectSeq(ConfigStates, LAMBDA r : r.state_code = code)
    IN  IF hits = <<>> THEN None
        ELSE IF hits[1].end_date # None /\ LexLess(hits[1].end_date[1], day) THEN None
        ELSE Some(hits[1])

\* get_rule_for_state(state_code): None or the rule
GetRuleForState(state_code, day) ==
    LET code == Upper(state_code)
        hits == SelectSeq(ConfigStates, LAMBDA r : r.state_code = code)
    IN  IF hits = <<>> THEN None
        ELSE IF hits[1].end_date # None /\ ~ LexLess(day, hits[1].end_date[1]) THEN None
        ELSE Some(hits[1])

\* get_tax_rate(state_code): None or the combined rate
GetTaxRate(state_code) ==
    LET code == Upper(state_code)
        hits == SelectSeq(ConfigRates, LAMBDA r : r.state_code = code)
    IN  IF hits = <<>> THEN None ELSE Some(hits[1].combined_rate)

\* `x or 0.0` for an Optional number
OrZero(opt) == IF Truthy(opt) THEN opt[1] ELSE 0

(***************************************************************************)
(* NexusAnalyzer (analyzer.py)                                             *)
(***************************************************************************)
Transaction(i, code, amt, d, rtype) ==
    [id |-> i, state_code |-> code, amount |-> amt, date |-> d, revenue_type |-> rtype]

\* Warning texts.
InvalidStateWarning(code) == <<"Invalid state code: ", code>>
FilteredOutWarning(n) == <<"Filtered out <n> marketplace transactions", <<n>>>>
NoRuleWarning(code) == <<"No rule found for state: ", code>>

\* Mutant of IsValidStateCode: only the length is checked.
IsValidStateCode_LengthOnly(code) == Len(code) = 2

\* _is_valid_state_code
IsValidStateCode(code) == Len(code) = 2 /\ IsAlpha(code)

\* Mutant of FilterVerdict: the year of the transaction is not checked.
FilterVerdict_AnyYear(txn, yr, ignoreMp, inclNeg) ==
    IF ignoreMp /\ txn.revenue_type = Some(Marketplace) THEN "marketplace"
    ELSE IF ~ inclNeg /\ txn.amount < 0 THEN "negative"
    ELSE IF ~ IsValidStateCode(txn.state_code) THEN "invalid"
    ELSE "keep"

\* Mutant of FilterVerdict: the state code is validated first.
FilterVerdict_CodeFirst(txn, yr, ignoreMp, inclNeg) ==
    IF ~ IsValidStateCode(txn.state_code) THEN "invalid"
    ELSE IF txn.date[1] # yr THEN "year"
    ELSE IF ignoreMp /\ txn.revenue_type = Some(Marketplace) THEN "marketplace"
    ELSE IF ~ inclNeg /\ txn.amount < 0 THEN "negative"
    ELSE "keep"

\* The body of the loop of _filter_transactions, for one transaction: which
\* `continue` it takes, or "keep".
FilterVerdict(txn, yr, ignoreMp, inclNeg) ==
    IF txn.date[1] # yr THEN "year"
    ELSE IF ignoreMp /\ txn.revenue_type = Some(Marketplace) THEN "marketplace"
    ELSE IF ~ inclNeg /\ txn.amount < 0 THEN "negative"
    ELSE IF ~ IsValidStateCode(txn.state_code) THEN "invalid"
    ELSE "keep"

\* The list `filtered` built by the loop of _filter_transactions.
FilteredList(txns, yr, ignoreMp, inclNeg) ==
    SelectSeq(txns, LAMBDA t : FilterVerdict(t, yr, ignoreMp, inclNeg) = "keep")

\* The warnings appended by the loop of _filter_transactions, in order.
RECURSIVE InvalidWarnings(_, _, _, _)
InvalidWarnings(txns, yr, ignoreMp, inclNeg) ==
    IF txns = <<>> THEN <<>>
    ELSE (IF FilterVerdict(txns[1], yr, ignoreMp, inclNeg) = "invalid"
          THEN <<InvalidStateWarning(txns[1].state_code)>> ELSE <<>>)
         \o InvalidWarnings(Tail(txns), yr, ignoreMp, inclNeg)

\* Mutant of FilteredCount: only the marketplace transactions are counted.
FilteredCount_MarketplaceOnly(txns, filtered) ==
    Len(SelectSeq(txns, LAMBDA t : t.revenue_type = Some(Marketplace)))

\* filtered_count of _filter_transactions
FilteredCount(txns, filtered) == Len(txns) - Len(filtered)

\* The warning appended after the loop of _filter_transactions.
MarketplaceWarnings(txns, filtered, ignoreMp) ==
    IF ignoreMp /\ FilteredCount(txns, filtered) > 0
    THEN <<FilteredOutWarning(FilteredCount(txns, filtered))>>
    ELSE <<>>

\* _filter_transactions: the list returned and the warnings appended.
FilterTransactions(txns, yr, ignoreMp, inclNeg) ==
    LET filtered == FilteredList(txns, yr, ignoreMp, inclNeg)
    IN  [filtered |-> filtered,
         warnings |-> InvalidWarnings(txns, yr, ignoreMp, inclNeg)
                      \o MarketplaceWarnings(txns, filtered, ignoreMp)]

\* The keys of the dict built by _group_by_state, in insertion order.
RECURSIVE GroupKeys(_)
GroupKeys(txns) ==
    IF txns = <<>> THEN <<>>
    ELSE LET rest == GroupKeys(SubSeq(txns, 1, Len(txns) - 1))
             code == txns[Len(txns)].state_code
         IN  IF \E i \in 1..Len(rest) : rest[i] = code THEN rest ELSE Append(rest, code)

\* Mutant of GroupTxns: every state is given all the filtered transactions.
GroupTxns_All(txns, state_code) == txns

\* by_state[state_code] of _group_by_state
GroupTxns(txns, state_code) == SelectSeq(txns, LAMBDA t : t.state_code = state_code)

\* The sort key of _analyze_state: (t.date, t.id).
SortKey(t) == <<t.date, t.id>>

\* Mutant of KeyLess: the key is the date alone.
KeyLess_DateOnly(a, b) == LexLess(SortKey(a)[1], SortKey(b)[1])

\* Tuple comparison (a.date, a.id) < (b.date, b.id).
KeyLess(a, b) ==
    \/ LexLess(SortKey(a)[1], SortKey(b)[1])
    \/ SortKey(a)[1] = SortKey(b)[1] /\ LexLess(SortKey(a)[2], SortKey(b)[2])

\* One insertion of a stable sort: t goes after every element whose key is
\* not greater than its own.
RECURSIVE InsertSorted(_, _)
InsertSorted(sorted, t) ==
    IF sorted = <<>> THEN <<t>>
    ELSE IF KeyLess(t, sorted[1]) THEN <<t>> \o sorted
    ELSE <<sorted[1]>> \o InsertSorted(Tail(sorted), t)

\* sorted(transactions, key=lambda t: (t.date, t.id)): stable, ascending.
RECURSIVE SortTxns(_)
SortTxns(txns) ==
    IF txns = <<>> THEN <<>>
    ELSE InsertSorted(SortTxns(SubSeq(txns, 1, Len(txns) - 1)), txns[Len(txns)])

\* Mutant of BreachCheck: the transaction threshold is checked first.
BreachCheck_CountFirst(total_revenue, total_txns, rule) ==
    IF Truthy(rule.transactions) /\ total_txns >= rule.transactions[1] THEN "transactions"
    ELSE IF total_revenue >= rule.amount THEN "revenue"
    ELSE "none"

\* Mutant of BreachCheck: the revenue threshold must be exceeded, not met.
BreachCheck_Strict(total_revenue, total_txns, rule) ==
    IF total_revenue > rule.amount THEN "revenue"
    ELSE IF Truthy(rule.transactions) /\ total_txns >= rule.transactions[1] THEN "transactions"
    ELSE "none"

\* One pass of the body of the breach loop, after the two additions:
\* "revenue", "transactions" or "none" (no break).
BreachCheck(total_revenue, total_txns, rule) ==
    IF total_revenue >= rule.amount THEN "revenue"
    ELSE IF Truthy(rule.transactions) /\ total_txns >= rule.transactions[1] THEN "transactions"
    ELSE "none"

\* Mutant of BreachLoop: a breach is given up again when a later transaction
\* brings the running revenue below the threshold.
RECURSIVE BreachLoop_Undone(_, _, _, _, _)
BreachLoop_Undone(sorted_txns, idx, total_revenue, total_txns, rule) ==
    IF idx >= Len(sorted_txns)
    THEN [total_revenue |-> total_revenue, total_txns |-> total_txns,
          breach_idx |-> -1, breach_type |-> None]
    ELSE LET revenue == total_revenue + sorted_txns[idx + 1].amount
             txns == total_txns + 1
             check == BreachCheck(revenue, txns, rule)
             later == BreachLoop_Undone(sorted_txns, idx + 1, revenue, txns, rule)
         IN  IF check = "none" THEN later
             ELSE IF check = "revenue" /\ idx + 1 < Len(sorted_txns)
                     /\ SumAmounts(sorted_txns) < rule.amount
                  THEN later
             ELSE [total_revenue |-> revenue, total_txns |-> txns,
                   breach_idx |-> idx, breach_type |-> Some(check)]

\* The breach loop from index idx (0-based) on, with the running totals.
RECURSIVE BreachLoop(_, _, _, _, _)
BreachLoop(sorted_txns, idx, total_revenue, total_txns, rule) ==
    IF idx >= Len(sorted_txns)
    THEN [total_revenue |-> total_revenue, total_txns |-> total_txns,
          breach_idx |-> -1, breach_type |-> None]
    ELSE LET revenue == total_revenue + sorted_txns[idx + 1].amount
             txns == total_txns + 1
             check == BreachCheck(revenue, txns, rule)
         IN  IF check # "none"
             THEN [total_revenue |-> revenue, total_txns |-> txns,
                   breach_idx |-> idx, breach_type |-> Some(check)]
             ELSE BreachLoop(sorted_txns, idx + 1, revenue, txns, rule)

\* Mutant of CumulativeBreach: the totals run over all transactions, also
\* after a breach.
CumulativeBreach_FullTotals(sorted_txns, rule) ==
    [(IF rule.amount = 0
      THEN [total_revenue |-> 0, total_txns |-> 0, breach_idx |-> -1, breach_type |-> None]
      ELSE BreachLoop(sorted_txns, 0, 0, 0, rule))
     EXCEPT !.total_revenue = SumAmounts(sorted_txns), !.total_txns = Len(sorted_txns)]

\* Mutant of CumulativeBreach: the breach loop runs for a rule with amount 0 too.
CumulativeBreach_NoZeroGuard(sorted_txns, rule) == BreachLoop(sorted_txns, 0, 0, 0, rule)

\* "Calculate cumulative breach": the totals, breach_idx and breach_type.
CumulativeBreach(sorted_txns, rule) ==
    IF rule.amount = 0
    THEN [total_revenue |-> SumAmounts(sorted_txns), total_txns |-> Len(sorted_txns),
          breach_idx |-> -1, breach_type |-> None]
    ELSE BreachLoop(sorted_txns, 0, 0, 0, rule)

\* Exact fractions [num, den], den > 0.
Frac(n, d) == [num |-> n, den |-> d]

FracLess(a, b) == a.num * b.den < b.num * a.den

\* Python max(a, b): b only if it is greater than a.
FracMax(a, b) == IF FracLess(a, b) THEN b ELSE a

\* Mutant of ThresholdPct: the revenue percentage is left out.
ThresholdPct_TransactionsOnly(total_revenue, total_txns, rule) ==
    IF rule.amount > 0 /\ Truthy(rule.transactions) /\ rule.transactions[1] > 0
    THEN Frac(total_txns * 100, rule.transactions[1])
    ELSE Frac(0, 1)

\* Mutant of ThresholdPct: the transaction percentage is left out.
ThresholdPct_RevenueOnly(total_revenue, total_txns, rule) ==
    IF rule.amount > 0
    THEN Frac(total_revenue * 100, rule.amount)
    ELSE Frac(0, 1)

\* "Calculate threshold percentage"
ThresholdPct(total_revenue, total_txns, rule) ==
    IF rule.amount > 0
    THEN LET revenue_pct == Frac(total_revenue * 100, rule.amount)
             txn_pct == IF Truthy(rule.transactions) /\ rule.transactions[1] > 0
                        THEN Frac(total_txns * 100, rule.transactions[1])
                        ELSE Frac(0, 1)
         IN  FracMax(revenue_pct, txn_pct)
    ELSE Frac(0, 1)

\* Mutant of Liability: the breaching transaction itself is not liable.
Liability_AfterBreach(sorted_txns, breach_idx, tax_rate) ==
    IF breach_idx >= 0
    THEN SumAmounts(SubSeq(sorted_txns, breach_idx + 2, Len(sorted_txns))) * tax_rate
    ELSE 0

\* "Calculate liability", in hundredths.
Liability(sorted_txns, breach_idx, tax_rate) ==
    IF breach_idx >= 0
    THEN SumAmounts(SubSeq(sorted_txns, breach_idx + 1, Len(sorted_txns))) * tax_rate
    ELSE 0

\* _analyze_state
AnalyzeState(state_code, txns, rule) ==
    LET sorted_txns == SortTxns(txns)
        acc == CumulativeBreach(sorted_txns, rule)
        tax_rate == OrZero(GetTaxRate(state_code))
    IN  [state_code |-> state_code,
         has_nexus |-> acc.breach_idx >= 0,
         total_revenue |-> acc.total_revenue,
         total_transactions |-> acc.total_txns,
         threshold_revenue |-> rule.amount,
         threshold_transactions |-> rule.transactions,
         breach_type |-> acc.breach_type,
         breach_date |-> IF acc.breach_idx >= 0
                         THEN Some(sorted_txns[acc.breach_idx + 1].date) ELSE None,
         breach_transaction_id |-> IF acc.breach_idx >= 0
                                   THEN Some(sorted_txns[acc.breach_idx + 1].id) ELSE None,
         threshold_percentage |-> ThresholdPct(acc.total_revenue, acc.total_txns, rule),
         tax_rate |-> tax_rate,
         estimated_liability |-> Liability(sorted_txns, acc.breach_idx, tax_rate)]

\* Mutant of ZeroActivityResult: the tax rate is not looked up.
ZeroActivityResult_NoRate(rule) ==
    [state_code |-> rule.state_code,
     has_nexus |-> FALSE,
     total_revenue |-> 0,
     total_transactions |-> 0,
     threshold_revenue |-> rule.amount,
     threshold_transactions |-> rule.transactions,
     breach_type |-> None,
     breach_date |-> None,
     breach_transaction_id |-> None,
     threshold_percentage |-> Frac(0, 1),
     tax_rate |-> 0,
     estimated_liability |-> 0]

\* The StateResult analyze builds for a rule with no processed state.
ZeroActivityResult(rule) ==
    [state_code |-> rule.state_code,
     has_nexus |-> FALSE,
     total_revenue |-> 0,
     total_transactions |-> 0,
     threshold_revenue |-> rule.amount,
     threshold_transactions |-> rule.transactions,
     breach_type |-> None,
     breach_date |-> None,
     breach_transaction_id |-> None,
     threshold_percentage |-> Frac(0, 1),
     tax_rate |-> OrZero(GetTaxRate(rule.state_code)),
     estimated_liability |-> 0]

\* The loop "Analyze each state" over by_state.items(): the state_results
\* appended and the warnings appended, for the keys given.
RECURSIVE DetectStates(_, _, _)
DetectStates(keys, filtered, day) ==
    IF keys = <<>> THEN [state_results |-> <<>>, warnings |-> <<>>]
    ELSE LET state_code == keys[1]
             rule == GetRuleForState(state_code, day)
             rest == DetectStates(Tail(keys), filtered, day)
         IN  IF rule = None
             THEN [state_results |-> rest.state_results,
                   warnings |-> <<NoRuleWarning(state_code)>> \o rest.warnings]
             ELSE [state_results |->
                       <<AnalyzeState(state_code, GroupTxns(filtered, state_code), rule[1])>>
                       \o rest.state_results,
                   warnings |-> rest.warnings]

\* processed_states
ProcessedStates(state_results) ==
    {state_results[i].state_code : i \in 1..Len(state_results)}

\* Mutant of NeedsZeroActivity: the processed_states test is missing.
NeedsZeroActivity_Always(rule, processed_states) == TRUE

\* rule.state_code not in processed_states
NeedsZeroActivity(rule, processed_states) == rule.state_code \notin processed_states

\* The loop "Add states with no transactions": the results appended.
RECURSIVE ZeroActivityStates(_, _)
ZeroActivityStates(all_rules, processed_states) ==
    IF all_rules = <<>> THEN <<>>
    ELSE (IF NeedsZeroActivity(all_rules[1], processed_states)
          THEN <<ZeroActivityResult(all_rules[1])>> ELSE <<>>)
         \o ZeroActivityStates(Tail(all_rules), processed_states)

\* Mutant of TotalLiability: the "simple estimate" total_revenue * tax_rate of
\* each state with nexus is summed instead of its estimated_liability.
RECURSIVE TotalLiability_SimpleEstimate(_)
TotalLiability_SimpleEstimate(state_results) ==
    IF state_results = <<>> THEN 0
    ELSE (IF state_results[1].has_nexus
          THEN state_results[1].total_revenue * state_results[1].tax_rate ELSE 0)
         + TotalLiability_SimpleEstimate(Tail(state_results))

\* sum(r.estimated_liability for r in state_results)
RECURSIVE TotalLiability(_)
TotalLiability(state_results) ==
    IF state_results = <<>> THEN 0
    ELSE state_results[1].estimated_liability + TotalLiability(Tail(state_results))

\* Mutant of TransactionCount: the input count.
TransactionCount_Raw(txns, filtered) == Len(txns)

\* transaction_count=len(filtered)
TransactionCount(txns, filtered) == Len(filtered)

\* analyze: the AnalysisResult returned.
AnalyzeResult(txns, yr, ignoreMp, inclNeg, day) ==
    LET f == FilterTransactions(txns, yr, ignoreMp, inclNeg)
        detected == DetectStates(GroupKeys(f.filtered), f.filtered, day)
        state_results ==
            detected.state_results
            \o ZeroActivityStates(GetCurrentRules(day), ProcessedStates(detected.state_results))
    IN  [state_results |-> state_results,
         total_liability |-> TotalLiability(state_results),
         analysis_year |-> yr,
         transaction_count |-> TransactionCount(txns, f.filtered),
         warnings |-> f.warnings \o detected.warnings]

(***************************************************************************)
(* Inputs                                                                  *)
(***************************************************************************)
\* All lists of at most MaxTxns transactions drawn from pool.
TxnLists(pool) == UNION {[1..n -> pool] : n \in 0..MaxTxns}

InYear == <<2024, 3, 1>>
InYearLater == <<2024, 3, 2>>
OutOfYear == <<2023, 3, 1>>

\* Whole analyses: transactions of states with a rule (CA, NY, the no-tax OR),
\* of a lower-case code, of a state without a rule and of an invalid code,
\* with one out-of-year and one marketplace transaction.
PipelinePool ==
    {Transaction(IdA, c, a, InYear, None) : c \in {CA, ca, NY, OR, ZZ}, a \in {3, -1}}
    \cup {Transaction(IdA, C1, 3, InYear, None),
          Transaction(IdA, CA, 3, OutOfYear, None),
          Transaction(IdA, CA, 3, InYear, Some(Marketplace))}

\* The filter: every combination of the four filter rules on a transaction,
\* and a valid code without a rule and a code of the wrong length.
FilterPool ==
    {Transaction(IdA, c, a, d, r) :
        c \in {CA, C1}, a \in {3, -1}, d \in {InYear, OutOfYear},
        r \in {None, Some(Marketplace)}}
    \cup {Transaction(IdA, ZZ, 3, InYear, None),
          Transaction(IdA, CAL, 3, InYear, Some(Taxable))}

\* Detection within one state: amounts below, at and above the thresholds,
\* equal and different dates, ids whose string order is not their numeric order.
DetectPool(code) ==
    {Transaction(i, code, a, d, None) :
        i \in {Id9, Id10}, a \in {-2, 2, 5}, d \in {InYear, InYearLater}}

\* Thresholds within one state: amounts below and above the thresholds and
\* a negative one, on two dates.
NexusPool(code) ==
    {Transaction(IdA, code, a, d, None) : a \in {-2, 2, 5}, d \in {InYear, InYearLater}}

\* Several states at once, for comparing calls: an upper- and a lower-case
\* code of a state with both thresholds, the state whose rule expires, a
\* state without a rule and an invalid code.
StatesPool ==
    {Transaction(IdA, c, a, InYear, None) : c \in {CA, ca, NY}, a \in {3, -1}}
    \cup {Transaction(IdA, ZZ, 3, InYear, None),
          Transaction(IdA, C1, 3, InYear, Some(Marketplace))}

Init ==
    /\ pc = "ready"
    /\ transactions \in TxnLists(PipelinePool)
    /\ year = 2024
    /\ ignore_marketplace \in BOOLEAN
    /\ include_negatives \in BOOLEAN
    /\ today \in Todays
    /\ result = <<>>

InitFilter ==
    /\ pc = "ready"
    /\ transactions \in TxnLists(FilterPool)
    /\ year \in {2023, 2024}
    /\ ignore_marketplace \in BOOLEAN
    /\ include_negatives \in BOOLEAN
    /\ today = <<2025, 6, 29>>
    /\ result = <<>>

InitStates ==
    /\ pc = "ready"
    /\ transactions \in TxnLists(StatesPool)
    /\ year = 2024
    /\ ignore_marketplace \in BOOLEAN
    /\ include_negatives \in BOOLEAN
    /\ today \in Todays
    /\ result = <<>>

InitDetect ==
    /\ pc = "ready"
    /\ \E code \in {CA, NY, OR, TX} : transactions \in TxnLists(DetectPool(code))
    /\ year = 2024
    /\ ignore_marketplace = FALSE
    /\ include_negatives \in BOOLEAN
    /\ today = <<2025, 6, 29>>
    /\ result = <<>>

InitNexus ==
    /\ pc = "ready"
    /\ \E code \in {CA, NY, OR, TX} : transactions \in TxnLists(NexusPool(code))
    /\ year = 2024
    /\ ignore_marketplace = FALSE
    /\ include_negatives \in BOOLEAN
    /\ today = <<2025, 6, 29>>
    /\ result = <<>>

(***************************************************************************)
(* The call of analyze                                                     *)
(***************************************************************************)
Analyze ==
    /\ pc = "ready"
    /\ result' = AnalyzeResult(transactions, year, ignore_marketplace, include_negatives, today)
    /\ pc' = "done"
    /\ UNCHANGED <<transactions, year, ignore_marketplace, include_negatives, today>>

Next == Analyze

Spec == Init /\ [][Next]_vars

SpecFilter == InitFilter /\ [][Next]_vars

SpecStates == InitStates /\ [][Next]_vars

SpecDetect == InitDetect /\ [][Next]_vars

SpecNexus == InitNexus /\ [][Next]_vars

Done == pc = "done"

(***************************************************************************)
(* Claims                                                                  *)
(***************************************************************************)
\* The state codes of the entries of state_results, in order.
ResultCodes == [i \in 1..Len(result.state_results) |-> result.state_results[i].state_code]

\* How many entries of state_results carry the state code.
EntriesFor(code) == Cardinality({i \in 1..Len(ResultCodes) : ResultCodes[i] = code})

\* The transactions analyze keeps, and the group of one state code.
Kept == FilteredList(transactions, year, ignore_marketplace, include_negatives)

GroupOf(code) == GroupTxns(Kept, code)

\* C1: after every call of analyze, each state code returned by
\* get_current_rules() is the state_code of exactly one entry of
\* state_results, whether the state breached, did not breach or had no
\* transactions.
C1_Completeness ==
    Done => \A i \in 1..Len(GetCurrentRules(today)) :
                EntriesFor(GetCurrentRules(today)[i].state_code) = 1

\* C1 witness: one returned result holds a breached state, an unbreached state
\* with transactions and a state with no transactions, all with current rules.
C1_Witness ==
    /\ Done
    /\ Len(GetCurrentRules(today)) = Len(ConfigStates)
    /\ \E i, j, k \in 1..Len(result.state_results) :
        /\ result.state_results[i].has_nexus
        /\ ~ result.state_results[j].has_nexus
        /\ result.state_results[j].total_transactions > 0
        /\ result.state_results[k].total_transactions = 0
        /\ GroupOf(result.state_results[k].state_code) = <<>>

\* The entries of state_results produced by _analyze_state: those whose state
\* code has a group of kept transactions.
Detected == {i \in 1..Len(result.state_results) : GroupOf(ResultCodes[i]) # <<>>}

\* The rule analyze used for the state code of a detected entry.
RuleOf(code) == GetRuleForState(code, today)[1]

\* The (date, id)-sorted transactions of a state code.
SortedOf(code) == SortTxns(GroupOf(code))

\* Cumulative revenue after the first k transactions of s.
CumRevenue(s, k) == SumAmounts(SubSeq(s, 1, k))

\* After the k-th transaction of s a threshold of the rule is met.
Meets(s, k, rule) ==
    \/ CumRevenue(s, k) >= rule.amount
    \/ rule.transactions # None /\ k >= rule.transactions[1]

\* The positions (1-based) of s at which a threshold is met.
Hits(s, rule) == {k \in 1..Len(s) : Meets(s, k, rule)}

\* The least element of a non-empty set of integers.
Least(S) == CHOOSE k \in S : \A j \in S : k <= j

\* C2: for a rule with amount > 0 the breach transaction is the one at the
\* least index of the sorted sequence at which cumulative revenue >= amount
\* or the cumulative count >= the transaction threshold (when set), and
\* has_nexus is true iff there is such an index; a single transaction of at
\* least the revenue threshold gives has_nexus, breach_type 'revenue' and
\* total_revenue equal to its amount.
C2_FirstBreach ==
    Done => \A i \in Detected :
        LET r == result.state_results[i]
            rule == RuleOf(r.state_code)
            s == SortedOf(r.state_code)
            hits == Hits(s, rule)
        IN  rule.amount > 0 =>
            /\ r.has_nexus <=> hits # {}
            /\ hits # {} =>
                /\ CumulativeBreach(s, rule).breach_idx = Least(hits) - 1
                /\ r.breach_transaction_id = Some(s[Least(hits)].id)
                /\ r.breach_date = Some(s[Least(hits)].date)
            /\ hits = {} =>
                /\ r.breach_transaction_id = None
                /\ r.breach_date = None
            /\ (Len(s) = 1 /\ s[1].amount >= rule.amount) =>
                /\ r.has_nexus
                /\ r.breach_type = Some("revenue")
                /\ r.total_revenue = s[1].amount

\* C2 witness: a breach at the second transaction of a sorted sequence of
\* three whose input order is not the sorted order.
C2_Witness ==
    /\ Done
    /\ \E i \in Detected :
        LET r == result.state_results[i]
            s == SortedOf(r.state_code)
        IN  /\ RuleOf(r.state_code).amount > 0
            /\ Len(s) = 3
            /\ s # GroupOf(r.state_code)
            /\ r.has_nexus
            /\ Least(Hits(s, RuleOf(r.state_code))) = 2

\* The positions of s at which the revenue threshold, resp. the transaction
\* count threshold, is met.
RevenueHits(s, rule) == {k \in 1..Len(s) : CumRevenue(s, k) >= rule.amount}

CountHits(s, rule) ==
    {k \in 1..Len(s) : rule.transactions # None /\ k >= rule.transactions[1]}

\* Both thresholds are first met on the same transaction of s.
Simultaneous(s, rule) ==
    /\ RevenueHits(s, rule) # {}
    /\ CountHits(s, rule) # {}
    /\ Least(RevenueHits(s, rule)) = Least(CountHits(s, rule))

\* C3: when the revenue threshold and the transaction-count threshold are
\* both first met on the same transaction the breach_type is 'revenue';
\* 'transactions' is reported only when cumulative revenue at the breach index
\* is strictly below rule.amount.
C3_RevenueFirst ==
    Done => \A i \in Detected :
        LET r == result.state_results[i]
            rule == RuleOf(r.state_code)
            s == SortedOf(r.state_code)
        IN  rule.amount > 0 =>
            /\ Simultaneous(s, rule) => r.breach_type = Some("revenue")
            /\ r.breach_type = Some("transactions") =>
                /\ CumulativeBreach(s, rule).breach_idx >= 0
                /\ CumRevenue(s, CumulativeBreach(s, rule).breach_idx + 1) < rule.amount

\* C3 witness: a state whose two thresholds are first met on its second
\* transaction, reported as a revenue breach.
C3_Witness ==
    /\ Done
    /\ \E i \in Detected :
        LET r == result.state_results[i]
            rule == RuleOf(r.state_code)
            s == SortedOf(r.state_code)
        IN  /\ rule.amount > 0
            /\ Simultaneous(s, rule)
            /\ Least(RevenueHits(s, rule)) = 2
            /\ r.breach_type = Some("revenue")

\* The largest combined_rate of the tax-rate table.
MaxTaxRate ==
    CHOOSE m \in {ConfigRates[i].combined_rate : i \in 1..Len(ConfigRates)} :
        \A j \in 1..Len(ConfigRates) : ConfigRates[j].combined_rate <= m

\* C4: for every state with a breach, estimated_liability >= 0 and
\* estimated_liability <= total_revenue * max_tax_rate / 100, with the
\* total_revenue reported in the same StateResult (both sides in hundredths).
C4_Conservation ==
    Done => \A i \in 1..Len(result.state_results) :
        LET r == result.state_results[i]
        IN  r.has_nexus =>
            /\ r.estimated_liability >= 0
            /\ r.estimated_liability <= r.total_revenue * MaxTaxRate

\* C4 restricted to include_negatives = false (no negative amount reaches
\* _analyze_state): the upper bound alone, which the revenue after the breach
\* transaction breaks.
C4_UpperBoundWithoutNegatives ==
    (Done /\ ~ include_negatives) =>
        \A i \in 1..Len(result.state_results) :
            LET r == result.state_results[i]
            IN  r.has_nexus => r.estimated_liability <= r.total_revenue * MaxTaxRate

\* The list g with the elements at positions a and b exchanged.
Swap(g, a, b) ==
    [k \in 1..Len(g) |-> IF k = a THEN g[b] ELSE IF k = b THEN g[a] ELSE g[k]]

\* _analyze_state gives the StateResult r for every list obtained from g by
\* exchanging two elements. The inputs hold every ordering of every
\* collection, and exchanges generate all orderings, so this in every state
\* is: any two orderings of one collection give the same StateResult.
SameForEveryExchange(code, g, rule, r) ==
    \A a, b \in 1..Len(g) : a < b => AnalyzeState(code, Swap(g, a, b), rule) = r

\* (date, id) of a is before that of b: dates in calendar order, then ids as
\* strings, character by character.
DateIdBefore(a, b) ==
    \/ LexLess(a.date, b.date)
    \/ a.date = b.date /\ LexLess(a.id, b.id)

\* s is in ascending (date, id) order.
Ascending(s) == \A k \in 1..(Len(s) - 1) : ~ DateIdBefore(s[k + 1], s[k])

\* Transactions of g that share date and id also share the amount.
SameKeySameAmount(g) ==
    \A a, b \in 1..Len(g) :
        (g[a].date = g[b].date /\ g[a].id = g[b].id) => g[a].amount = g[b].amount

\* C5 as claimed: the transactions of a state are processed in ascending
\* (date, id) order, ids compared as strings, and any two input orderings of
\* the same collection of transactions give the identical StateResult.
C5_AnyOrdering ==
    Done => \A i \in Detected :
        LET r == result.state_results[i]
            g == GroupOf(r.state_code)
        IN  /\ Ascending(SortedOf(r.state_code))
            /\ SameForEveryExchange(r.state_code, g, RuleOf(r.state_code), r)

\* C5 as amended: the same, for collections in which transactions that share
\* both date and id have equal amounts (the sort is stable: transactions
\* with the same date and id stay in input order).
C5_OrderingWithDistinctKeys ==
    Done => \A i \in Detected :
        LET r == result.state_results[i]
            g == GroupOf(r.state_code)
        IN  /\ Ascending(SortedOf(r.state_code))
            /\ SameKeySameAmount(g) =>
                   SameForEveryExchange(r.state_code, g, RuleOf(r.state_code), r)

\* C5 witness: two transactions of one date given as id "9" then id "10";
\* "10" sorts first as a string and is the breach transaction.
C5_Witness ==
    /\ Done
    /\ \E i \in Detected :
        LET r == result.state_results[i]
            g == GroupOf(r.state_code)
        IN  /\ Len(g) = 2
            /\ g[1].date = g[2].date
            /\ g[1].id = Id9 /\ g[2].id = Id10
            /\ g[1].amount # g[2].amount
            /\ r.has_nexus
            /\ r.total_transactions = 1
            /\ r.breach_transaction_id = Some(Id10)

\* C6: a rule with amount = 0 never gives has_nexus: the StateResult has
\* has_nexus false, no breach type, date or transaction id,
\* threshold_percentage 0, estimated_liability 0, and total_revenue and
\* total_transactions are the sum and the count of all the state's filtered
\* transactions.
C6_ZeroThreshold ==
    Done => \A i \in 1..Len(result.state_results) :
        LET r == result.state_results[i]
            g == GroupOf(r.state_code)
        IN  r.threshold_revenue = 0 =>
            /\ ~ r.has_nexus
            /\ r.breach_type = None
            /\ r.breach_date = None
            /\ r.breach_transaction_id = None
            /\ r.threshold_percentage.num = 0
            /\ r.estimated_liability = 0
            /\ r.total_revenue = SumAmounts(g)
            /\ r.total_transactions = Len(g)

\* C6 witness: the state whose rule has amount 0 has three transactions
\* with positive revenue and reports them all.
C6_Witness ==
    /\ Done
    /\ \E i \in Detected :
        LET r == result.state_results[i]
        IN  /\ RuleOf(r.state_code).amount = 0
            /\ r.total_transactions = 3
            /\ r.total_revenue > 5
            /\ ~ r.has_nexus

\* The sum of estimated_liability over the entries of state_results at the
\* positions in S.
RECURSIVE LiabilityOver(_)
LiabilityOver(S) ==
    IF S = {} THEN 0
    ELSE LET i == CHOOSE x \in S : TRUE
         IN  result.state_results[i].estimated_liability + LiabilityOver(S \ {i})

\* C7: in every AnalysisResult total_liability is the sum of
\* estimated_liability over all entries of state_results, detected and
\* zero-activity alike.
C7_TotalLiability ==
    Done => result.total_liability = LiabilityOver(1..Len(result.state_results))

\* C7 witness: two detected states with different non-zero liabilities, one
\* of them a transaction-count breach, and a zero-activity entry.
C7_Witness ==
    /\ Done
    /\ \E i, j \in Detected :
        /\ result.state_results[i].estimated_liability # 0
        /\ result.state_results[j].estimated_liability # 0
        /\ result.state_results[i].estimated_liability
               # result.state_results[j].estimated_liability
        /\ result.state_results[j].breach_type = Some("transactions")
    /\ \E k \in 1..Len(result.state_results) : k \notin Detected

\* The transaction passes the four filter rules: its date is in the analysis
\* year, it is not a marketplace transaction when those are ignored, it is
\* not negative when negatives are excluded, and its state code is two
\* letters.
Survives(t) ==
    /\ t.date[1] = year
    /\ ~ (ignore_marketplace /\ t.revenue_type = Some(Marketplace))
    /\ ~ (~ include_negatives /\ t.amount < 0)
    /\ Len(t.state_code) = 2
    /\ \A k \in 1..Len(t.state_code) :
           t.state_code[k] \in (65..90) \cup (97..122)

\* The positions of the input transactions that pass the filter rules.
Survivors == {k \in 1..Len(transactions) : Survives(transactions[k])}

\* C8: transaction_count is the number of transactions that survive the
\* filter (year, marketplace, negative amounts, state code), not the input
\* count; transactions of states without a rule still count.
C8_TransactionCount ==
    Done => result.transaction_count = Cardinality(Survivors)

\* C8 witness: three input transactions, one dropped by the filter, one of
\* the two survivors of a state without a rule; the count is 2.
C8_Witness ==
    /\ Done
    /\ Len(transactions) = 3
    /\ Cardinality(Survivors) = 2
    /\ result.transaction_count = 2
    /\ \E k \in Survivors :
        GetRuleForState(transactions[k].state_code, today) = None

\* The positions of the warnings of the returned result that are a
\* 'Filtered out <N> marketplace transactions' warning.
FilteredOutPositions ==
    {k \in 1..Len(result.warnings) : result.warnings[k][1] = FilteredOutWarning(0)[1]}

\* Input count minus the number of transactions that pass the filter rules.
Dropped == Len(transactions) - Cardinality(Survivors)

\* C10: the warning 'Filtered out <N> marketplace transactions' is appended
\* exactly once iff ignore_marketplace is true and at least one input
\* transaction was dropped by any filter rule, with N the input count minus
\* the output count; with ignore_marketplace false it is never emitted.
C10_MarketplaceWarning ==
    Done =>
        IF ignore_marketplace /\ Dropped > 0
        THEN /\ Cardinality(FilteredOutPositions) = 1
             /\ \A k \in FilteredOutPositions :
                    result.warnings[k] = FilteredOutWarning(Dropped)
        ELSE FilteredOutPositions = {}

\* C10 witness: ignore_marketplace is set, one marketplace transaction and
\* one non-marketplace transaction are dropped, and the warning reports 2.
C10_Witness ==
    /\ Done
    /\ ignore_marketplace
    /\ Cardinality({k \in 1..Len(transactions) :
                       transactions[k].revenue_type = Some(Marketplace)}) = 1
    /\ Dropped = 2
    /\ \E k \in FilteredOutPositions : result.warnings[k] = FilteredOutWarning(2)

\* The state codes of the transactions analyze keeps.
KeptCodes == {Kept[k].state_code : k \in 1..Len(Kept)}

\* How many warnings of the returned result are the given warning.
TimesWarned(w) == Cardinality({k \in 1..Len(result.warnings) : result.warnings[k] = w})

\* C9: for every state code with at least one filtered transaction for which
\* get_rule_for_state returns no rule, the warning 'No rule found for state:
\* <code>' is appended exactly once and state_results has no entry with that
\* state code.
C9_NoRule ==
    Done => \A code \in KeptCodes :
        GetRuleForState(code, today) = None =>
            /\ TimesWarned(NoRuleWarning(code)) = 1
            /\ EntriesFor(code) = 0

\* C9 witness: transactions of a state that has no rule and of a state whose
\* rule has expired, next to a detected state; each of the two is warned
\* about once.
C9_Witness ==
    /\ Done
    /\ {ZZ, NY} \subseteq KeptCodes
    /\ GetRuleForState(NY, today) = None
    /\ TimesWarned(NoRuleWarning(ZZ)) = 1
    /\ TimesWarned(NoRuleWarning(NY)) = 1
    /\ Detected # {}

\* C11: analyze is deterministic. Besides its arguments and the
\* configuration, analyze reads only the clock (date.today() in the
\* ConfigLoader), and only to decide which rules are current: a call on any
\* day with the same set of current rules, with the same transactions, year
\* and flags, returns the identical AnalysisResult (state_results in the
\* same order, total_liability, transaction_count and warnings).
C11_Deterministic ==
    Done => \A day \in Todays :
        GetCurrentRules(day) = GetCurrentRules(today) =>
            AnalyzeResult(transactions, year, ignore_marketplace, include_negatives, day)
                = result

\* C11 witness: a call on the day a rule expires, with transactions of that
\* state, and a later day with the same current rules.
C11_Witness ==
    /\ Done
    /\ \E k \in 1..Len(Kept) : Kept[k].state_code = NY
    /\ \E i \in 1..Len(ConfigStates) : ConfigStates[i].end_date = Some(today)
    /\ Len(result.state_results) > 0
    /\ \E day \in Todays : day # today /\ GetCurrentRules(day) = GetCurrentRules(today)

\* The number of positions in S that are at most k.
RankIn(S, k) == Cardinality({j \in S : j <= k})

\* The subsequence of the input transactions at the positions in S, in input
\* order.
InputAt(S) ==
    [n \in 1..Cardinality(S) |-> transactions[CHOOSE k \in S : RankIn(S, k) = n]]

\* C12: the output of _filter_transactions is exactly the subsequence, in
\* input order, of the input transactions whose date is in the year, that
\* are not marketplace transactions when those are ignored, not negative
\* when negatives are excluded, and whose state code is two letters; nothing
\* is added, duplicated or reordered.
C12_FilterOutput ==
    Done =>
        FilterTransactions(transactions, year, ignore_marketplace, include_negatives).filtered
            = InputAt(Survivors)

\* C12 witness: of three input transactions the first and the third, which
\* differ, are kept and the second is dropped.
C12_Witness ==
    /\ Done
    /\ Len(transactions) = 3
    /\ Survivors = {1, 3}
    /\ transactions[1] # transactions[3]
    /\ result.transaction_count = 2

\* The state code is not exactly two alphabetic characters.
BadCode(code) ==
    ~ (Len(code) = 2 /\ \A k \in 1..Len(code) : code[k] \in (65..90) \cup (97..122))

\* The transaction passes the year, marketplace and negative-amount rules,
\* which the loop applies before it looks at the state code.
PassesEarlierRules(t) ==
    /\ t.date[1] = year
    /\ ~ (ignore_marketplace /\ t.revenue_type = Some(Marketplace))
    /\ ~ (~ include_negatives /\ t.amount < 0)

\* The input positions that carry the state code, and those among them that
\* reach the state-code check.
BadCodePositions(code) ==
    {k \in 1..Len(transactions) : transactions[k].state_code = code}

BadCodeReached(code) ==
    {k \in BadCodePositions(code) : PassesEarlierRules(transactions[k])}

\* The state codes of the input that are not two letters.
BadCodes ==
    {c \in {transactions[k].state_code : k \in 1..Len(transactions)} : BadCode(c)}

\* C13 as claimed: every input transaction whose state code is not exactly
\* two alphabetic characters is dropped and gets one warning 'Invalid state
\* code: <code>'.
C13_InvalidCodeWarned ==
    Done => \A code \in BadCodes :
        /\ \A k \in BadCodePositions(code) : k \notin Survivors
        /\ \A k \in 1..Len(Kept) : Kept[k].state_code # code
        /\ TimesWarned(InvalidStateWarning(code)) = Cardinality(BadCodePositions(code))

\* C13 as amended: every such transaction is dropped, and those that pass
\* the year, marketplace and negative-amount rules get one warning each; one
\* dropped by an earlier rule gets none.
C13_InvalidCodeWarnedWhenReached ==
    Done => \A code \in BadCodes :
        /\ \A k \in BadCodePositions(code) : k \notin Survivors
        /\ \A k \in 1..Len(Kept) : Kept[k].state_code # code
        /\ TimesWarned(InvalidStateWarning(code)) = Cardinality(BadCodeReached(code))

\* C13 witness: the same invalid code three times, once out of year; it is
\* warned about twice.
C13_Witness ==
    /\ Done
    /\ \E code \in BadCodes :
        /\ Cardinality(BadCodePositions(code)) = 3
        /\ Cardinality(BadCodeReached(code)) = 2
        /\ TimesWarned(InvalidStateWarning(code)) = 2

\* C14: for a rule with amount > 0, after a breach at the k-th transaction of
\* the sorted sequence total_revenue is the sum of the first k amounts and
\* total_transactions is k (later transactions are not counted); without a
\* breach they are the sum and the count of all the state's filtered
\* transactions.
C14_Totals ==
    Done => \A i \in Detected :
        LET r == result.state_results[i]
            rule == RuleOf(r.state_code)
            s == SortedOf(r.state_code)
            hits == Hits(s, rule)
        IN  rule.amount > 0 =>
            IF hits # {}
            THEN /\ r.has_nexus
                 /\ r.total_revenue = CumRevenue(s, Least(hits))
                 /\ r.total_transactions = Least(hits)
            ELSE /\ ~ r.has_nexus
                 /\ r.total_revenue = SumAmounts(GroupOf(r.state_code))
                 /\ r.total_transactions = Len(GroupOf(r.state_code))

\* C14 witness: a breach at the first of three sorted transactions; the two
\* later ones, with revenue, are left out of the totals.
C14_Witness ==
    /\ Done
    /\ \E i \in Detected :
        LET r == result.state_results[i]
            s == SortedOf(r.state_code)
        IN  /\ RuleOf(r.state_code).amount > 0
            /\ Len(s) = 3
            /\ r.has_nexus
            /\ r.total_transactions = 1
            /\ r.total_revenue < SumAmounts(s)

\* The combined rate the rate table holds for the upper-cased state code, 0
\* when the table has no entry for it.
RateOrZero(code) ==
    IF \E k \in 1..Len(ConfigRates) : ConfigRates[k].state_code = Upper(code)
    THEN (CHOOSE r \in {ConfigRates[k] : k \in 1..Len(ConfigRates)} :
              r.state_code = Upper(code)).combined_rate
    ELSE 0

C16_ThresholdPercentage ==
    Done => \A i \in Detected :
        LET r == result.state_results[i]
            rule == RuleOf(r.state_code)
            p == r.threshold_percentage
            withTxn == rule.transactions # None /\ rule.transactions[1] > 0
            \* p = x / d * 100 and p >= x / d * 100, by cross-multiplication
            IsPct(x, d) == p.num * d = x * 100 * p.den
            AtLeastPct(x, d) == p.num * d >= x * 100 * p.den
        IN  /\ p.den > 0
            /\ IF rule.amount > 0
               THEN /\ AtLeastPct(r.total_revenue, rule.amount)
                    /\ IF withTxn
                       THEN /\ AtLeastPct(r.total_transactions, rule.transactions[1])
                            /\ \/ IsPct(r.total_revenue, rule.amount)
                               \/ IsPct(r.total_transactions, rule.transactions[1])
                       ELSE /\ p.num >= 0
                            /\ IsPct(r.total_revenue, rule.amount) \/ p.num = 0
               ELSE p.num = 0

\* C16 witness: a state whose transaction percentage exceeds its revenue
\* percentage, so that the maximum is the transaction percentage.
C16_Witness ==
    /\ Done
    /\ \E i \in Detected :
        LET r == result.state_results[i]
            rule == RuleOf(r.state_code)
        IN  /\ rule.amount > 0
            /\ rule.transactions # None
            /\ r.total_transactions * rule.amount > r.total_revenue * rule.transactions[1]
            /\ r.threshold_percentage.num * rule.transactions[1]
                   = r.total_transactions * 100 * r.threshold_percentage.den
            /\ r.total_revenue > 0

\* The entries of state_results that were synthesized for a rule without
\* filtered transactions.
Synthesized == {i \in 1..Len(result.state_results) : GroupOf(ResultCodes[i]) = <<>>}

\* C17: for every rule of get_current_rules() whose state has no filtered
\* transactions, state_results holds a synthesized entry with has_nexus false,
\* total_revenue 0, total_transactions 0, no breach type, date or transaction
\* id, threshold_percentage 0, estimated_liability 0, threshold_revenue and
\* threshold_transactions taken from the rule and tax_rate the table's rate (0
\* when absent); these entries follow all detected-state entries.
C17_ZeroActivity ==
    Done =>
        /\ \A k \in 1..Len(GetCurrentRules(today)) :
            LET rule == GetCurrentRules(today)[k]
            IN  GroupOf(rule.state_code) = <<>> =>
                \E i \in Synthesized :
                    LET r == result.state_results[i]
                    IN  /\ r.state_code = rule.state_code
                        /\ r.has_nexus = FALSE
                        /\ r.total_revenue = 0
                        /\ r.total_transactions = 0
                        /\ r.breach_type = None
                        /\ r.breach_date = None
                        /\ r.breach_transaction_id = None
                        /\ r.threshold_percentage.num = 0
                        /\ r.estimated_liability = 0
                        /\ r.threshold_revenue = rule.amount
                        /\ r.threshold_transactions = rule.transactions
                        /\ r.tax_rate = RateOrZero(rule.state_code)
        /\ \A i \in Synthesized : \A j \in Detected : j < i

\* C17 witness: a run with a detected entry followed by synthesized entries,
\* one for a state with a tax rate and a transaction threshold and one for a
\* state with neither.
C17_Witness ==
    /\ Done
    /\ Detected # {}
    /\ \E i, j \in Synthesized :
        /\ result.state_results[i].tax_rate > 0
        /\ result.state_results[i].threshold_transactions # None
        /\ result.state_results[j].tax_rate = 0
        /\ result.state_results[j].threshold_transactions = None

\* The input list without its k-th transaction.
RemoveAt(s, k) == SubSeq(s, 1, k - 1) \o SubSeq(s, k + 1, Len(s))

\* The state_results of the same call on another input list.
ResultsOn(txns) ==
    AnalyzeResult(txns, year, ignore_marketplace, include_negatives, today).state_results

\* The entries of a state_results list whose state code is not the given one.
EntriesOfOthers(rs, code) == {rs[i] : i \in {j \in 1..Len(rs) : rs[j].state_code # code}}

\* C18: the StateResult of a state depends only on that state's own
\* transactions, its rule and its tax rate: the input list with and the input
\* list without any one transaction (an addition read one way, a removal the
\* other, a change being a removal and an addition) give the same StateResult
\* for every state code other than that transaction's.
C18_Independence ==
    Done => \A k \in 1..Len(transactions) :
        EntriesOfOthers(result.state_results, transactions[k].state_code)
            = EntriesOfOthers(ResultsOn(RemoveAt(transactions, k)), transactions[k].state_code)

\* C18 witness: removing a transaction changes the result of its own state
\* from nexus to no nexus while another state, detected with nexus, keeps its
\* entry.
C18_Witness ==
    /\ Done
    /\ \E k \in 1..Len(transactions) :
        LET code == transactions[k].state_code
            before == result.state_results
            after == ResultsOn(RemoveAt(transactions, k))
        IN  /\ \E i \in 1..Len(before) : before[i].state_code = code /\ before[i].has_nexus
            /\ \E i \in 1..Len(after) : after[i].state_code = code /\ ~ after[i].has_nexus
            /\ \E i \in Detected : /\ before[i].state_code # code
                                   /\ before[i].has_nexus
                                   /\ before[i] \in EntriesOfOthers(after, code)

\* Calendar date d lies strictly after calendar date day.
StrictlyAfter(d, day) ==
    \/ d[1] > day[1]
    \/ d[1] = day[1] /\ d[2] > day[2]
    \/ d[1] = day[1] /\ d[2] = day[2] /\ d[3] > day[3]

\* The rules get_current_rules() returns, as a set.
CurrentRuleSet == {GetCurrentRules(today)[k] : k \in 1..Len(GetCurrentRules(today))}

\* The state codes the provider is asked about: configured ones, upper and
\* lower case, and one without a rule.
ProviderCodes == {CA, ca, NY, OR, TX, ZZ}

\* C19: a rule is current iff its end_date is absent or strictly after today,
\* and the two provider operations agree on it: get_rule_for_state(code)
\* returns a rule iff get_current_rules() holds a rule for that state (the
\* state being looked up by its upper-cased code), and then it returns that
\* rule; a rule whose end_date equals today is returned by neither.
C19_CurrentRules ==
    Done =>
        /\ \A k \in 1..Len(ConfigStates) :
            LET rule == ConfigStates[k]
            IN  /\ rule \in CurrentRuleSet
                    <=> (rule.end_date = None \/ StrictlyAfter(rule.end_date[1], today))
                /\ (rule.end_date = Some(today)) =>
                        /\ rule \notin CurrentRuleSet
                        /\ GetRuleForState(rule.state_code, today) = None
        /\ \A code \in ProviderCodes :
            /\ GetRuleForState(code, today) # None
                <=> (\E rule \in CurrentRuleSet : rule.state_code = Upper(code))
            /\ GetRuleForState(code, today) # None
                => GetRuleForState(code, today)[1] \in CurrentRuleSet

\* C19 witness: analyze ran on the end_date of a rule with a kept transaction
\* of that state; neither operation returned the rule, so the state got the
\* no-rule warning and no entry.
C19_Witness ==
    /\ Done
    /\ \E k \in 1..Len(ConfigStates) :
        LET rule == ConfigStates[k]
        IN  /\ rule.end_date = Some(today)
            /\ rule.state_code \in KeptCodes
            /\ TimesWarned(NoRuleWarning(rule.state_code)) = 1
            /\ EntriesFor(rule.state_code) = 0

\* C20: in every StateResult of the returned result the breach fields agree:
\* has_nexus is true iff breach_type is 'revenue' or 'transactions' iff
\* breach_date is present iff breach_transaction_id is present; when present,
\* breach_date and breach_transaction_id are the date and the id of one
\* filtered transaction of the same state, whose date lies in the analysis
\* year.
C20_BreachFields ==
    Done => \A i \in 1..Len(result.state_results) :
        LET r == result.state_results[i]
            g == GroupOf(r.state_code)
        IN  /\ r.has_nexus \in BOOLEAN
            /\ r.has_nexus <=> r.breach_type \in {Some("revenue"), Some("transactions")}
            /\ r.breach_type \in {None, Some("revenue"), Some("transactions")}
            /\ r.has_nexus <=> r.breach_date # None
            /\ r.has_nexus <=> r.breach_transaction_id # None
            /\ r.has_nexus =>
                \E k \in 1..Len(g) :
                    /\ r.breach_date = Some(g[k].date)
                    /\ r.breach_transaction_id = Some(g[k].id)
                    /\ g[k].date[1] = result.analysis_year
                    /\ g[k].date[1] = year

\* C20 witness: a state with nexus whose input also held a transaction of
\* another year, dropped by the filter, next to an entry without nexus.
C20_Witness ==
    /\ Done
    /\ \E i, j \in 1..Len(result.state_results) :
        LET r == result.state_results[i]
        IN  /\ r.has_nexus
            /\ r.breach_date # None
            /\ \E k \in 1..Len(transactions) :
                /\ transactions[k].state_code = r.state_code
                /\ transactions[k].date[1] # year
                /\ transactions[k].amount > 0
            /\ ~ result.state_results[j].has_nexus
            /\ result.state_results[j].breach_type = None

\* The current rule an entry of state_results was computed from: the one
\* get_rule_for_state finds for a detected entry, the rule itself for a
\* synthesized one; in both cases the current rule of the upper-cased code.
RulesBehind(i) == {rule \in CurrentRuleSet : rule.state_code = Upper(ResultCodes[i])}

\* C21: every entry of state_results carries a state_code that equals the
\* state_code of some rule of get_current_rules(), and no two entries are
\* computed from the same rule, whatever state codes pass the validity filter
\* (lower-case ones included).
C21_OneEntryPerRule ==
    Done =>
        /\ \A i \in 1..Len(result.state_results) :
            \E rule \in CurrentRuleSet : ResultCodes[i] = rule.state_code
        /\ \A i, j \in 1..Len(result.state_results) :
            i # j => RulesBehind(i) \cap RulesBehind(j) = {}

\* C21 restricted to calls in which every kept state code is upper-case: the
\* same statement, which then holds.
C21_OneEntryPerRuleForUpperCaseCodes ==
    (Done /\ \A code \in KeptCodes : Upper(code) = code) =>
        /\ \A i \in 1..Len(result.state_results) :
            \E rule \in CurrentRuleSet : ResultCodes[i] = rule.state_code
        /\ \A i, j \in 1..Len(result.state_results) :
            i # j => RulesBehind(i) \cap RulesBehind(j) = {}

\* A call in which a kept lower-case code gave a detected entry under that
\* code and the rule it was computed from gave a synthesized entry as well.
C21_LowerCaseDuplicate ==
    /\ Done
    /\ \E i \in Detected : \E j \in Synthesized :
        /\ ResultCodes[i] # Upper(ResultCodes[i])
        /\ ResultCodes[j] = Upper(ResultCodes[i])
        /\ result.state_results[i].threshold_revenue
               = result.state_results[j].threshold_revenue

\* Whether the full sum or the full count of a state's kept transactions meets
\* a threshold of the rule.
FullSumMeets(code) == SumAmounts(GroupOf(code)) >= RuleOf(code).amount

FullCountMeets(code) ==
    /\ RuleOf(code).transactions # None
    /\ Len(GroupOf(code)) >= RuleOf(code).transactions[1]

\* C22: for a rule with amount > 0, when include_negatives is false has_nexus
\* is true iff the full sum of the state's kept amounts >= rule.amount or the
\* rule sets a transaction threshold and the state's kept count >= it, so that
\* has_nexus does not depend on dates or ordering; when include_negatives is
\* true, full sum >= rule.amount still implies has_nexus, and a breach reached
\* at some transaction of the sorted sequence stays a breach whatever negative
\* amounts follow.
C22_NexusFromFullTotals ==
    Done => \A i \in Detected :
        LET r == result.state_results[i]
            code == r.state_code
            s == SortedOf(code)
        IN  RuleOf(code).amount > 0 =>
            /\ ~ include_negatives =>
                (r.has_nexus <=> (FullSumMeets(code) \/ FullCountMeets(code)))
            /\ FullSumMeets(code) => r.has_nexus
            /\ FullCountMeets(code) => r.has_nexus
            /\ (\E k \in 1..Len(s) : Meets(s, k, RuleOf(code))) => r.has_nexus

\* C22 witness: with include_negatives true the cumulative revenue reached the
\* threshold and later negative amounts brought the full sum below it again,
\* with no count threshold met; the state still has nexus.
C22_Witness ==
    /\ Done
    /\ include_negatives
    /\ \E i \in Detected :
        LET r == result.state_results[i]
            code == r.state_code
        IN  /\ RuleOf(code).amount > 0
            /\ r.has_nexus
            /\ r.breach_type = Some("revenue")
            /\ ~ FullSumMeets(code)
            /\ ~ FullCountMeets(code)

\* threshold_percentage of an entry is at least 100, as exact fractions.
AtLeastHundred(r) == r.threshold_percentage.num >= 100 * r.threshold_percentage.den

\* C23: for every StateResult with threshold_revenue > 0, in exact arithmetic,
\* has_nexus is true iff threshold_percentage >= 100; a state that did not
\* breach reports a threshold_percentage strictly below 100 and a
\* zero-activity state reports 0.
C23_PercentageAndNexus ==
    Done => \A i \in 1..Len(result.state_results) :
        LET r == result.state_results[i]
        IN  /\ r.threshold_percentage.den > 0
            /\ r.threshold_revenue > 0 => (r.has_nexus <=> AtLeastHundred(r))
            /\ (r.threshold_revenue > 0 /\ ~ r.has_nexus) => ~ AtLeastHundred(r)
            /\ i \in Synthesized => r.threshold_percentage.num = 0

\* C23 witness: one call with a detected entry that breached at 100 percent or
\* more by the transaction count alone (its revenue percentage below 100) and
\* a zero-activity entry at 0.
C23_Witness ==
    /\ Done
    /\ \E i \in Detected : \E j \in Synthesized :
        LET r == result.state_results[i]
        IN  /\ r.threshold_revenue > 0
            /\ r.has_nexus
            /\ r.breach_type = Some("transactions")
            /\ r.total_revenue < r.threshold_revenue
            /\ AtLeastHundred(r)
            /\ result.state_results[j].threshold_revenue > 0
            /\ result.state_results[j].threshold_percentage.num = 0

====
